---------------------------- MODULE Spec2Model ----------------------------
(***************************************************************************)
(* A model of embrelpredict/learn.py: the epoch heuristic, the experiment  *)
(* orchestrator learn_rel, and the result store and loader.                *)
(*                                                                         *)
(* The data loaders, the model classes and the trainer are external        *)
(* collaborators.  Each of their calls is one step of learn_rel that       *)
(* either succeeds or raises; what they return is drawn from small sets.   *)
(***************************************************************************)
EXTENDS Integers, Sequences, FiniteSets, TLC

VARIABLES
    args,               \* the arguments of the learn_rel call
    dataset,            \* the environment: what the relation's data looks like
    pc,                 \* the statement learn_rel is at
    idx,                \* how many (model, loader, run) combinations are behind
    cur,                \* the loop variables model, loader_name, run
    Y,                  \* the label tensor of the last load (its set of values, doubled)
    nrows,              \* X.shape[0] of the last load
    epochs,             \* the local variable epochs
    emb_model_results,  \* dict from loader name to the list of run results
    trace,              \* history: the steps taken in the current combination
    ncalls,             \* history: collaborator calls made so far in this call
    failed,             \* history: the call that raised, if any
    outcome,            \* "running", "returned" or "raised"
    result,             \* what learn_rel returned
    fs,                 \* the directory tree under the output root
    io,                 \* "none", "stored", "loaded" or "load_failed"
    loaded,             \* what load_learn_result returned
    heur                \* the epoch heuristic on its own: input and outputs

vars == <<args, dataset, pc, idx, cur, Y, nrows, epochs, emb_model_results,
          trace, ncalls, failed, outcome, result, fs, io, loaded, heur>>

learnVars == <<args, dataset, pc, idx, cur, Y, nrows, epochs,
               emb_model_results, trace, ncalls, failed, outcome, result>>

-----------------------------------------------------------------------------
(* Bounds of the model *)

MaxModels == 2          \* longest list of model names
MaxRuns == 2            \* largest n_runs of the general specification
MaxStoreRuns == 12      \* largest n_runs of the storage specification
MaxSmallSize == 120     \* trainset sizes 1..MaxSmallSize are all tried

(* Program constants *)

MinPosExs == 75         \* learn_rel: if cnt < 75
SplitSeed == 41         \* learn_rel: split_data(X, Y, seed=41)
None_pos_exs == -1      \* load_learn_result: pos_exs = None

-----------------------------------------------------------------------------
(* Python values *)

None == [none |-> TRUE]

EmptyDict == [k \in {} |-> <<>>]

DictGet(d, k, default) == IF k \in DOMAIN d THEN d[k] ELSE default

DictSet(d, k, v) == [x \in (DOMAIN d) \cup {k} |-> IF x = k THEN v ELSE d[x]]

Range(s) == {s[j] : j \in DOMAIN s}

RECURSIVE Pow(_, _)
Pow(b, e) == IF e = 0 THEN 1 ELSE b * Pow(b, e - 1)

-----------------------------------------------------------------------------
(* _epochs_from_trainset_size *)

(* HalfOrderBound[k + 2] is floor(2 * 10^(k + 1/2)), the largest integer n *)
(* with log10(n/2) - 1 < k - 1/2, for k = -1 .. 8: the digits of 2*sqrt(10) *)
(* = 6.32455532033...  No integer n has log10(n/2) - 1 exactly at a half.   *)
HalfOrderBound ==
    <<0, 6, 63, 632, 6324, 63245, 632455, 6324555, 63245553, 632455532>>

(* round(log10(trainset_size / 2) - 1), for 1 <= trainset_size < 2^31 *)
RoundedOrder(trainset_size) ==
    LET above == {j \in DOMAIN HalfOrderBound :
                     HalfOrderBound[j] < trainset_size}
    IN  (CHOOSE j \in above : \A o \in above : o <= j) - 2

(* Python's round() of the fraction num/den: to the nearest, halves to even *)
RoundHalfEven(num, den) ==
    LET q == num \div den
        r == num % den
    IN  IF 2 * r < den THEN q
        ELSE IF 2 * r > den THEN q + 1
        ELSE IF q % 2 = 0 THEN q ELSE q + 1

(* round(math.pow(2, inv_order) * base) with base = 3 *)
RoundedEpochs(inv_order) ==
    IF inv_order >= 0
    THEN RoundHalfEven(Pow(2, inv_order) * 3, 1)
    ELSE RoundHalfEven(3, Pow(2, 0 - inv_order))

_epochs_from_trainset_size(trainset_size) ==
    LET order == RoundedOrder(trainset_size)
        inv_order == 5 - order
    IN  RoundedEpochs(inv_order)

-----------------------------------------------------------------------------
(* The inputs of learn_rel *)

ModelNames == <<"logreg", "nn2">>

LoaderNames == <<"ft", "glove">>

(* models: any list of model names, repetitions included *)
ModelLists == UNION {[1..k -> Range(ModelNames)] : k \in 0..MaxModels}

(* data_loaders: a dict, so its keys are distinct; it iterates in insertion order *)
LoaderDicts ==
    {d \in UNION {[1..k -> Range(LoaderNames)] : k \in 0..Len(LoaderNames)} :
        \A a, b \in DOMAIN d : a # b => d[a] # d[b]}

(* rel_meta['type'] with single_rel_types *)
RelCases ==
    { [type |-> "rnd2rnd", single |-> {}],
      [type |-> "rnd2rnd", single |-> {"rnd2rnd", "noun"}],
      [type |-> "noun", single |-> {"noun"}],
      [type |-> "verb", single |-> {"noun"}] }

(* rel_filter: None, or a predicate that accepts or rejects this rel_meta *)
RelFilters == {"none", "accept", "reject"}

Cnts == {MinPosExs - 1, MinPosExs}

(* X.shape[0] of what the loaders return for this relation *)
DatasetRows == {150, 7000}

(* The label tensors a loader may return, each as the set of its values    *)
(* doubled, so that the float label 0.5 is the integer 1:                  *)
(* {0,1}, {0,0.5,1}, {0,1,2}, {1}, {-1,1}                                  *)
LabelTensors == {{0, 2}, {0, 1, 2}, {0, 2, 4}, {2}, {-2, 2}}

ArgSets(cases, filters, runs) ==
    {[cnt |-> c, name |-> "plural", type |-> rc.type, file |-> "relfile",
      relpath |-> "relpath", single_rel_types |-> rc.single,
      rel_filter |-> f, models |-> m, data_loaders |-> d, n_runs |-> n] :
        c \in Cnts, rc \in cases, f \in filters, m \in ModelLists,
        d \in LoaderDicts, n \in runs}

-----------------------------------------------------------------------------
(* learn_rel *)

(* variant: the threshold off by one *)
TooFewExamplesOffByOne(cnt) == cnt < MinPosExs - 1

TooFewExamples(cnt) == cnt < MinPosExs

(* rel_filter and not rel_filter(rel_meta) *)
FilteredOut(rel_filter) == rel_filter # "none" /\ rel_filter = "reject"

empty_result(a) ==
    [rel_name |-> a.name, rel_type |-> a.type, pos_exs |-> a.cnt,
     emb_model_results |-> EmptyDict]

(* itertools.product(models, data_loaders, range(n_runs)): its length and *)
(* its k-th element, counting from 0                                        *)
ProductLen(a) == Len(a.models) * Len(a.data_loaders) * a.n_runs

ProductAt(a, k) ==
    LET L == Len(a.data_loaders)
        R == a.n_runs
    IN  [model |-> a.models[(k \div (L * R)) + 1],
         loader_name |-> a.data_loaders[((k \div R) % L) + 1],
         run |-> k % R]

(* variant: the single-item test ahead of the rnd2rnd test *)
LoadCallSingleFirst(a, loader_name) ==
    IF a.type \in a.single_rel_types
    THEN [fn |-> "load_single_data", on |-> loader_name,
          fpath |-> <<a.relpath, a.file>>]
    ELSE IF a.type = "rnd2rnd"
    THEN [fn |-> "generate_random_pair_data", on |-> loader_name,
          target_size |-> a.cnt * 2]
    ELSE [fn |-> "load_pair_data", on |-> loader_name,
          fpath |-> <<a.relpath, a.file>>]

(* the load call chosen by rel_type (the if / elif / else) *)
LoadCall(a, loader_name) ==
    IF a.type = "rnd2rnd"
    THEN [fn |-> "generate_random_pair_data", on |-> loader_name,
          target_size |-> a.cnt * 2]
    ELSE IF a.type \in a.single_rel_types
    THEN [fn |-> "load_single_data", on |-> loader_name,
          fpath |-> <<a.relpath, a.file>>]
    ELSE [fn |-> "load_pair_data", on |-> loader_name,
          fpath |-> <<a.relpath, a.file>>]

TorchMax(t) == CHOOSE m \in t : \A y \in t : y <= m

TorchMin(t) == CHOOSE m \in t : \A y \in t : m <= y

(* torch.max(Y) == 1 and torch.min(Y) == 0, on doubled label values *)
LabelsPass(t) == TorchMax(t) = 2 * 1 /\ TorchMin(t) = 2 * 0

(* variant: training ahead of the pretrain test *)
NextStepTrainFirst(step) ==
    CASE step = "load" -> "validate"
      [] step = "validate" -> "epochs"
      [] step = "epochs" -> "split"
      [] step = "split" -> "build"
      [] step = "build" -> "trainer"
      [] step = "trainer" -> "train"
      [] step = "train" -> "pretest"
      [] step = "pretest" -> "test_df"
      [] step = "test_df" -> "test_random"
      [] step = "test_random" -> "record"
      [] step = "record" -> "iter"

(* the statements of one combination, in the order learn_rel executes them *)
NextStep(step) ==
    CASE step = "load" -> "validate"
      [] step = "validate" -> "epochs"
      [] step = "epochs" -> "split"
      [] step = "split" -> "build"
      [] step = "build" -> "trainer"
      [] step = "trainer" -> "pretest"
      [] step = "pretest" -> "train"
      [] step = "train" -> "test_df"
      [] step = "test_df" -> "test_random"
      [] step = "test_random" -> "record"
      [] step = "record" -> "iter"

(* the steps that call a collaborator, and those of them inside the try *)
CollaboratorSteps ==
    {"load", "split", "build", "trainer", "pretest", "train", "test_df",
     "test_random"}

TrySteps == {"trainer", "pretest", "train", "test_df", "test_random"}

(* the collaborator call of a step *)
CallAt(step, a, c, e) ==
    CASE step = "load" -> LoadCall(a, c.loader_name)
      [] step = "split" ->
            [fn |-> "split_data", on |-> c.loader_name, seed |-> SplitSeed]
      [] step = "build" -> [fn |-> "_build_model", on |-> c.model]
      [] step = "trainer" -> [fn |-> "ModelTrainer", on |-> c.model]
      [] step = "pretest" -> [fn |-> "test", on |-> "testloader"]
      [] step = "train" ->
            [fn |-> "train", on |-> "trainloader", epochs_list |-> e]
      [] step = "test_df" -> [fn |-> "test_df", on |-> "testloader"]
      [] step = "test_random" -> [fn |-> "test_random", on |-> "testloader"]

(* variant: an except clause that prints and does not re-raise *)
ExceptHandlerSwallows(step) == "continue"

(* what an exception raised at a step does: outside the try it propagates, *)
(* inside the except clause prints and re-raises                            *)
ExceptHandler(step) == "raise"

(* a table as the trainer hands it over: its columns and its rows *)
DataFrame(columns, rows) == [columns |-> columns, rows |-> rows]

(* model_result: the dict learn_rel records for one combination.  The     *)
(* trainer's outputs are opaque; each is tagged with the combination k     *)
(* whose trainer produced it.                                              *)
ModelResult(a, c, e, ds, k) ==
    [model |-> c.model, i |-> c.run, emb |-> c.loader_name,
     epochs |-> e, pos_exs |-> a.cnt,
     dataset_size |-> ds.n, dataset_tok_cnt |-> ds.tc,
     dataset_tok_found |-> ds.tf,
     trainer_df |-> DataFrame(<<"epoch", "loss">>, <<<<e, k>>>>),
     pretrain_test_result |-> [acc |-> k],
     test_df |-> DataFrame(<<"label", "pred">>, <<<<1, k>>, <<0, k>>>>),
     test_random_result |-> [acc |-> k + 1]]

(* variant: the list started anew for each result *)
AccumulateOverwrites(emr, loader_name, model_result) ==
    DictSet(emr, loader_name, <<model_result>>)

(* variant: the list kept under the model name *)
AccumulateUnderModel(emr, loader_name, model_result) ==
    DictSet(emr, model_result.model,
            Append(DictGet(emr, model_result.model, <<>>), model_result))

(* model_results = emb_model_results.get(loader_name, []);                 *)
(* model_results.append(model_result);                                     *)
(* emb_model_results[loader_name] = model_results                          *)
Accumulate(emr, loader_name, model_result) ==
    DictSet(emr, loader_name,
            Append(DictGet(emr, loader_name, <<>>), model_result))

NoFailure == [fn |-> "none", ncalls |-> 0]

InitLearn(argset, rowset) ==
    /\ args \in argset
    /\ dataset \in {[rows |-> r, n |-> r, tc |-> 2 * r, tf |-> r] :
                       r \in rowset}
    /\ pc = "start"
    /\ idx = 0
    /\ cur = None
    /\ Y = {}
    /\ nrows = 0
    /\ epochs = 0
    /\ emb_model_results = EmptyDict
    /\ trace = <<>>
    /\ ncalls = 0
    /\ failed = NoFailure
    /\ outcome = "running"
    /\ result = None
    /\ fs = EmptyDict
    /\ io = "none"
    /\ loaded = None
    /\ heur = None

Return(r) ==
    /\ pc' = "done"
    /\ outcome' = "returned"
    /\ result' = r

Raise(call, n) ==
    /\ pc' = "done"
    /\ outcome' = "raised"
    /\ failed' = [fn |-> call, ncalls |-> n]
    /\ UNCHANGED result

(* if cnt < 75: return empty_result *)
SkipTooFew ==
    /\ pc = "start"
    /\ TooFewExamples(args.cnt)
    /\ Return(empty_result(args))
    /\ UNCHANGED <<args, dataset, idx, cur, Y, nrows, epochs,
                   emb_model_results, trace, ncalls, failed, fs, io, loaded,
                   heur>>

(* if rel_filter and not rel_filter(rel_meta): return empty_result *)
SkipFiltered ==
    /\ pc = "start"
    /\ ~TooFewExamples(args.cnt)
    /\ FilteredOut(args.rel_filter)
    /\ Return(empty_result(args))
    /\ UNCHANGED <<args, dataset, idx, cur, Y, nrows, epochs,
                   emb_model_results, trace, ncalls, failed, fs, io, loaded,
                   heur>>

(* emb_model_results = {} and on to the loop *)
EnterLoop ==
    /\ pc = "start"
    /\ ~TooFewExamples(args.cnt)
    /\ ~FilteredOut(args.rel_filter)
    /\ emb_model_results' = EmptyDict
    /\ pc' = "iter"
    /\ UNCHANGED <<args, dataset, idx, cur, Y, nrows, epochs, trace, ncalls,
                   failed, outcome, result, fs, io, loaded, heur>>

(* the for statement yields the next combination *)
NextCombination ==
    /\ pc = "iter"
    /\ idx < ProductLen(args)
    /\ cur' = ProductAt(args, idx)
    /\ trace' = <<>>
    /\ pc' = "load"
    /\ UNCHANGED <<args, dataset, idx, Y, nrows, epochs, emb_model_results,
                   ncalls, failed, outcome, result, fs, io, loaded, heur>>

(* the for statement is exhausted: build and return the result *)
ReturnResult ==
    /\ pc = "iter"
    /\ idx >= ProductLen(args)
    /\ Return([rel_name |-> args.name, rel_type |-> args.type,
               pos_exs |-> args.cnt,
               emb_model_results |-> emb_model_results])
    /\ UNCHANGED <<args, dataset, idx, cur, Y, nrows, epochs,
                   emb_model_results, trace, ncalls, failed, fs, io, loaded,
                   heur>>

(* a collaborator call that returns: logged, and on to the next statement *)
Called(step) ==
    /\ pc = step
    /\ trace' = Append(trace, CallAt(step, args, cur, epochs))
    /\ ncalls' = ncalls + 1
    /\ pc' = NextStep(step)

(* X, Y, ds_n, ds_tc, ds_tf = data_loader.<load method>(...) *)
LoadData ==
    /\ Called("load")
    /\ Y' \in LabelTensors
    /\ nrows' = dataset.rows
    /\ UNCHANGED <<args, dataset, idx, cur, epochs, emb_model_results,
                   failed, outcome, result, fs, io, loaded, heur>>

(* assert torch.max(Y) == 1 and torch.min(Y) == 0, msg *)
ValidateLabels ==
    /\ pc = "validate"
    /\ trace' = Append(trace, [fn |-> "assert", on |-> "Y"])
    /\ IF LabelsPass(Y)
       THEN /\ pc' = NextStep("validate")
            /\ UNCHANGED <<failed, outcome, result>>
       ELSE Raise("assert", ncalls)
    /\ UNCHANGED <<args, dataset, idx, cur, Y, nrows, epochs,
                   emb_model_results, ncalls, fs, io, loaded, heur>>

(* epochs = epochs_from_trainset_size_fn(X.shape[0]) *)
ComputeEpochs ==
    /\ pc = "epochs"
    /\ epochs' = _epochs_from_trainset_size(nrows)
    /\ trace' = Append(trace, [fn |-> "epochs_from_trainset_size_fn",
                               on |-> "X", trainset_size |-> nrows])
    /\ pc' = NextStep("epochs")
    /\ UNCHANGED <<args, dataset, idx, cur, Y, nrows, emb_model_results,
                   ncalls, failed, outcome, result, fs, io, loaded, heur>>

(* trainloader, validloader, testloader = data_loader.split_data(X, Y, seed=41) *)
SplitData ==
    /\ Called("split")
    /\ UNCHANGED <<args, dataset, idx, cur, Y, nrows, epochs,
                   emb_model_results, failed, outcome, result, fs, io,
                   loaded, heur>>

(* my_model = _build_model(model, indim) *)
BuildModel ==
    /\ Called("build")
    /\ UNCHANGED <<args, dataset, idx, cur, Y, nrows, epochs,
                   emb_model_results, failed, outcome, result, fs, io,
                   loaded, heur>>

(* trainer = evalclass.ModelTrainer(my_model, cuda=cuda) *)
MakeTrainer ==
    /\ Called("trainer")
    /\ UNCHANGED <<args, dataset, idx, cur, Y, nrows, epochs,
                   emb_model_results, failed, outcome, result, fs, io,
                   loaded, heur>>

(* pretrain_test_result = trainer.test(testloader) *)
PretrainTest ==
    /\ Called("pretest")
    /\ UNCHANGED <<args, dataset, idx, cur, Y, nrows, epochs,
                   emb_model_results, failed, outcome, result, fs, io,
                   loaded, heur>>

(* trainer.train(trainloader, validloader, epochs_list=range(epochs), ...) *)
Train ==
    /\ Called("train")
    /\ UNCHANGED <<args, dataset, idx, cur, Y, nrows, epochs,
                   emb_model_results, failed, outcome, result, fs, io,
                   loaded, heur>>

(* test_df = trainer.test_df(testloader, debug=debug_test_df) *)
DetailedTest ==
    /\ Called("test_df")
    /\ UNCHANGED <<args, dataset, idx, cur, Y, nrows, epochs,
                   emb_model_results, failed, outcome, result, fs, io,
                   loaded, heur>>

(* test_random_result = trainer.test_random(testloader) *)
RandomVectorTest ==
    /\ Called("test_random")
    /\ UNCHANGED <<args, dataset, idx, cur, Y, nrows, epochs,
                   emb_model_results, failed, outcome, result, fs, io,
                   loaded, heur>>

(* model_result = {...}; append it under loader_name; the dels; next turn *)
RecordResult ==
    /\ pc = "record"
    /\ emb_model_results' =
          Accumulate(emb_model_results, cur.loader_name,
                     ModelResult(args, cur, epochs, dataset, idx))
    /\ trace' = Append(trace, [fn |-> "record", on |-> cur.loader_name])
    /\ idx' = idx + 1
    /\ pc' = NextStep("record")
    /\ UNCHANGED <<args, dataset, cur, Y, nrows, epochs, ncalls, failed,
                   outcome, result, fs, io, loaded, heur>>

(* a collaborator call raises *)
CollaboratorFails ==
    /\ pc \in CollaboratorSteps
    /\ trace' = Append(trace, CallAt(pc, args, cur, epochs))
    /\ ncalls' = ncalls + 1
    /\ IF pc \in TrySteps /\ ExceptHandler(pc) # "raise"
       THEN /\ pc' = "iter"
            /\ idx' = idx + 1
            /\ failed' = [fn |-> CallAt(pc, args, cur, epochs).fn,
                           ncalls |-> ncalls + 1]
            /\ UNCHANGED <<outcome, result>>
       ELSE /\ Raise(CallAt(pc, args, cur, epochs).fn, ncalls + 1)
            /\ UNCHANGED idx
    /\ UNCHANGED <<args, dataset, cur, Y, nrows, epochs, emb_model_results,
                   fs, io, loaded, heur>>

NextLearn ==
    \/ SkipTooFew
    \/ SkipFiltered
    \/ EnterLoop
    \/ NextCombination
    \/ ReturnResult
    \/ LoadData
    \/ ValidateLabels
    \/ ComputeEpochs
    \/ SplitData
    \/ BuildModel
    \/ MakeTrainer
    \/ PretrainTest
    \/ Train
    \/ DetailedTest
    \/ RandomVectorTest
    \/ RecordResult
    \/ CollaboratorFails

-----------------------------------------------------------------------------
(* store_learn_result and _store_embrun_result *)

RECURSIVE Digits(_)
Digits(n) == IF n < 10 THEN <<n>> ELSE Append(Digits(n \div 10), n % 10)

RECURSIVE ZeroPad(_, _)
ZeroPad(digits, width) ==
    IF Len(digits) >= width THEN digits ELSE ZeroPad(<<0>> \o digits, width)

(* variant: 'run_%d' % i, without the padding *)
RunDirNameUnpadded(i) == <<"run_">> \o Digits(i)

(* 'run_%02d' % i, as the text "run_" followed by the digits *)
RunDirName(i) == <<"run_">> \o ZeroPad(Digits(i), 2)

MetaKeys ==
    <<"model", "i", "emb", "epochs", "pos_exs", "dataset_size",
      "dataset_tok_cnt", "dataset_tok_found">>

MetricKeys == <<"acc">>

FileNames ==
    {"meta.json", "train.tsv", "test.tsv", "pretrain-test.json",
     "randomvec-test.json"}

(* json.dump of a dict whose keys, in insertion order, are keys: the text *)
(* of the object, one key/value pair after the other                       *)
JsonDump(d, keys) == [j \in DOMAIN keys |-> <<keys[j], d[keys[j]]>>]

(* json.load: the dict of the pairs of the text (a later pair of the same *)
(* key wins)                                                                *)
JsonLoad(text) ==
    [key \in {text[j][1] : j \in DOMAIN text} |->
        LET last == CHOOSE j \in DOMAIN text :
                        /\ text[j][1] = key
                        /\ \A o \in DOMAIN text : text[o][1] = key => o <= j
        IN  text[last][2]]

(* DataFrame.to_csv(path, sep='\t', index=False): the header line, then   *)
(* one line per row                                                        *)
ToCsv(df) == <<df.columns>> \o df.rows

(* pd.read_csv(path, sep='\t'): the first line names the columns *)
ReadCsv(text) == DataFrame(Head(text), Tail(text))

(* odir = osp.join(emb_dir, emb_result['model'], 'run_%02d' % emb_result['i']) *)
RunDir(emb_dir, emb_result) ==
    emb_dir \o <<emb_result.model, RunDirName(emb_result.i)>>

(* the tree after _store_embrun_result(emb_dir, emb_result): the run      *)
(* directory exists and holds the five files, written anew                 *)
_store_embrun_result(tree, emb_dir, emb_result) ==
    LET odir == RunDir(emb_dir, emb_result)
        \* meta['pos_exs'] = int(meta['pos_exs']) leaves an integer as it is
        meta == [key \in Range(MetaKeys) |-> emb_result[key]]
        files ==
            [f \in FileNames |->
                CASE f = "meta.json" -> JsonDump(meta, MetaKeys)
                  [] f = "train.tsv" -> ToCsv(emb_result.trainer_df)
                  [] f = "test.tsv" -> ToCsv(emb_result.test_df)
                  [] f = "pretrain-test.json" ->
                        JsonDump(emb_result.pretrain_test_result, MetricKeys)
                  [] f = "randomvec-test.json" ->
                        JsonDump(emb_result.test_random_result, MetricKeys)]
    IN  DictSet(tree, odir, files)

(* for i, emb_result in enumerate(...): _store_embrun_result(...) *)
RECURSIVE StoreRuns(_, _, _)
StoreRuns(tree, emb_path, emb_results) ==
    IF emb_results = <<>> THEN tree
    ELSE StoreRuns(_store_embrun_result(tree, emb_path, Head(emb_results)),
                   emb_path, Tail(emb_results))

(* for emb in learn_result['emb_model_results']: the embedding sources    *)
(* write under different directories, so the order among them is free      *)
RECURSIVE StoreEmbs(_, _, _, _)
StoreEmbs(tree, rel_path, emr, embs) ==
    IF embs = {} THEN tree
    ELSE LET emb == CHOOSE e \in embs : TRUE
         IN  StoreEmbs(StoreRuns(tree, rel_path \o <<emb>>, emr[emb]),
                       rel_path, emr, embs \ {emb})

store_learn_result(tree, dir_path, learn_result) ==
    LET rel_path == <<dir_path, learn_result.rel_type, learn_result.rel_name>>
    IN  StoreEmbs(tree, rel_path, learn_result.emb_model_results,
                  DOMAIN learn_result.emb_model_results)

-----------------------------------------------------------------------------
(* load_learn_result and _load_embrun_result *)

IsPrefix(dir, path) ==
    Len(dir) < Len(path) /\ SubSeq(path, 1, Len(dir)) = dir

(* osp.isdir(dir): a directory exists once a run directory was made in it *)
IsDir(tree, dir) == \E path \in DOMAIN tree : IsPrefix(dir, path)

(* the names of the directories in dir *)
SubDirs(tree, dir) ==
    {path[Len(dir) + 1] : path \in {q \in DOMAIN tree : IsPrefix(dir, q)}}

(* an order of names: strings by their place in the alphabetical lists    *)
(* below, run directory names digit by digit                               *)
SortedNames == <<"ft", "glove", "logreg", "nn2">>

NameRank(name) == CHOOSE j \in DOMAIN SortedNames : SortedNames[j] = name

RECURSIVE DigitsBefore(_, _)
DigitsBefore(a, b) ==
    IF a = <<>> THEN b # <<>>
    ELSE IF b = <<>> THEN FALSE
    ELSE IF Head(a) # Head(b) THEN Head(a) < Head(b)
    ELSE DigitsBefore(Tail(a), Tail(b))

Before(a, b, isRun) ==
    IF isRun THEN DigitsBefore(Tail(a), Tail(b))
    ELSE NameRank(a) < NameRank(b)

(* os.listdir returns the names in arbitrary order; the model lets each   *)
(* listing come out in ascending or in descending order of the names       *)
ListingOrders == {"asc", "desc"}

RECURSIVE ListDir(_, _, _)
ListDir(names, order, isRun) ==
    IF names = {} THEN <<>>
    ELSE LET first ==
                 CHOOSE n \in names : \A o \in names \ {n} :
                     IF order = "asc" THEN Before(n, o, isRun)
                     ELSE Before(o, n, isRun)
         IN  <<first>> \o ListDir(names \ {first}, order, isRun)

(* _load_embrun_result(emb_dir) *)
_load_embrun_result(files) ==
    LET meta == JsonLoad(files["meta.json"])
    IN  [key \in (DOMAIN meta) \cup {"trainer_df", "test_df",
                    "pretrain_test_result", "test_random_result"} |->
            CASE key = "trainer_df" -> ReadCsv(files["train.tsv"])
              [] key = "test_df" -> ReadCsv(files["test.tsv"])
              [] key = "pretrain_test_result" ->
                    JsonLoad(files["pretrain-test.json"])
              [] key = "test_random_result" ->
                    JsonLoad(files["randomvec-test.json"])
              [] OTHER -> meta[key]]

(* the runs of one model directory, in listing order *)
RECURSIVE LoadRuns(_, _, _)
LoadRuns(tree, embmodel_dir, runs) ==
    IF runs = <<>> THEN <<>>
    ELSE <<_load_embrun_result(tree[embmodel_dir \o <<Head(runs)>>])>>
         \o LoadRuns(tree, embmodel_dir, Tail(runs))

(* emb_model_res of one embedding directory: model after model *)
RECURSIVE LoadModels(_, _, _, _)
LoadModels(tree, emb_dir, model_names, order) ==
    IF model_names = <<>> THEN <<>>
    ELSE LET embmodel_dir == emb_dir \o <<Head(model_names)>>
             runs == ListDir(SubDirs(tree, embmodel_dir), order.runs, TRUE)
         IN  LoadRuns(tree, embmodel_dir, runs)
             \o LoadModels(tree, emb_dir, Tail(model_names), order)

LoadEmb(tree, emb_dir, order) ==
    LoadModels(tree, emb_dir,
               ListDir(SubDirs(tree, emb_dir), order.models, FALSE), order)

(* if not pos_exs: pos_exs = embrun_res['pos_exs'], over the runs in the  *)
(* order they are loaded                                                   *)
RECURSIVE FirstPosExs(_, _)
FirstPosExs(pos_exs, runs) ==
    IF runs = <<>> THEN pos_exs
    ELSE FirstPosExs(IF pos_exs = None_pos_exs \/ pos_exs = 0
                     THEN Head(runs).pos_exs ELSE pos_exs,
                     Tail(runs))

RECURSIVE Concat(_, _, _)
Concat(emr, embs, j) ==
    IF j > Len(embs) THEN <<>> ELSE emr[embs[j]] \o Concat(emr, embs, j + 1)

load_learn_result(tree, dir_path, rel_type, rel_name, order) ==
    LET rel_dir == <<dir_path, rel_type, rel_name>>
        embs == ListDir(SubDirs(tree, rel_dir), order.embs, FALSE)
        emr == [emb \in Range(embs) |->
                   LoadEmb(tree, rel_dir \o <<emb>>, order)]
    IN  [rel_type |-> rel_type, rel_name |-> rel_name,
         emb_model_results |-> emr,
         pos_exs |-> FirstPosExs(None_pos_exs, Concat(emr, embs, 1))]

-----------------------------------------------------------------------------
(* Storing what learn_rel returned under an empty root, and loading it back *)

Store ==
    /\ outcome = "returned"
    /\ io = "none"
    /\ fs' = store_learn_result(fs, "root", result)
    /\ io' = "stored"
    /\ UNCHANGED <<learnVars, loaded, heur>>

Load ==
    /\ io = "stored"
    /\ IsDir(fs, <<"root", result.rel_type, result.rel_name>>)
    /\ \E oe \in ListingOrders, om \in ListingOrders, orun \in ListingOrders :
          loaded' = load_learn_result(fs, "root", result.rel_type,
                                    result.rel_name,
                                    [embs |-> oe, models |-> om, runs |-> orun])
    /\ io' = "loaded"
    /\ UNCHANGED <<learnVars, fs, heur>>

(* os.listdir(rel_dir) raises when the relation's directory does not exist *)
LoadFails ==
    /\ io = "stored"
    /\ ~IsDir(fs, <<"root", result.rel_type, result.rel_name>>)
    /\ io' = "load_failed"
    /\ UNCHANGED <<learnVars, fs, loaded, heur>>

-----------------------------------------------------------------------------
(* The general specification: one learn_rel call on any of the inputs,    *)
(* then its result stored under an empty root and loaded back              *)

Init == InitLearn(ArgSets(RelCases, RelFilters, 0..MaxRuns), DatasetRows)

Next == NextLearn \/ Store \/ Load \/ LoadFails

Spec == Init /\ [][Next]_vars

(* The storage specification: the same call, store and load, with n_runs  *)
(* large enough for run indices of two digits, on fewer relation cases     *)

StoreCases == {[type |-> "verb", single |-> {"noun"}]}

InitStore ==
    InitLearn(ArgSets(StoreCases, {"none", "reject"}, {0, MaxStoreRuns}),
              {150})

SpecStore == InitStore /\ [][Next]_vars

-----------------------------------------------------------------------------
(* The epoch heuristic on its own: a trainset size n is drawn, then the   *)
(* suggested epochs for n and for 10 * n are computed                      *)

(* Python integers are unbounded; the model's are 32-bit, so the largest *)
(* size is 2^31 - 1 and the tenfold is taken up to (2^31 - 1) div 10      *)
TrainsetSizes ==
    (1..MaxSmallSize)
    \cup {HalfOrderBound[j] + d : j \in 2..Len(HalfOrderBound), d \in {0, 1}}
    \cup {1000, 100000, 10000000, 700000000, 1000000000, 2147483647}

InitEpochs ==
    /\ heur \in {[n |-> n, at |-> "drawn"] : n \in TrainsetSizes}
    /\ args = None
    /\ dataset = None
    /\ pc = "heuristic"
    /\ idx = 0
    /\ cur = None
    /\ Y = {}
    /\ nrows = 0
    /\ epochs = 0
    /\ emb_model_results = EmptyDict
    /\ trace = <<>>
    /\ ncalls = 0
    /\ failed = NoFailure
    /\ outcome = "none"
    /\ result = None
    /\ fs = EmptyDict
    /\ io = "none"
    /\ loaded = None

SuggestEpochs ==
    /\ heur.at = "drawn"
    /\ heur' = [n |-> heur.n, at |-> "one",
                e |-> _epochs_from_trainset_size(heur.n)]
    /\ UNCHANGED <<learnVars, fs, io, loaded>>

SuggestEpochsTenfold ==
    /\ heur.at = "one"
    /\ heur.n <= 214748364
    /\ heur' = [n |-> heur.n, at |-> "both", e |-> heur.e,
                e10 |-> _epochs_from_trainset_size(10 * heur.n)]
    /\ UNCHANGED <<learnVars, fs, io, loaded>>

NextEpochs == SuggestEpochs \/ SuggestEpochsTenfold

SpecEpochs == InitEpochs /\ [][NextEpochs]_vars

-----------------------------------------------------------------------------
(* Properties *)

LoadFns == {"generate_random_pair_data", "load_single_data", "load_pair_data"}

Fns(t) == [j \in DOMAIN t |-> t[j].fn]

NoRepeats(seq) == \A a, b \in DOMAIN seq : a # b => seq[a] # seq[b]

RECURSIVE RunCount(_, _)
RunCount(emr, embs) ==
    IF embs = {} THEN 0
    ELSE LET emb == CHOOSE e \in embs : TRUE
         IN  Len(emr[emb]) + RunCount(emr, embs \ {emb})

KeyIsEmb(emr) ==
    \A k \in DOMAIN emr : \A j \in DOMAIN emr[k] : emr[k][j].emb = k

LearnRelRan ==
    outcome = "returned" /\ args.cnt >= MinPosExs /\ args.rel_filter # "reject"

(* C1: a relation with cnt < 75, or one the supplied rel_filter rejects,   *)
(* makes learn_rel return the empty result (name, type, pos_exs = cnt, no  *)
(* per-embedding results) without any loader call, model or trainer.       *)
C1_SkipReturnsEmptyWithoutCalls ==
    (pc # "start" /\ (args.cnt < MinPosExs \/ args.rel_filter = "reject")) =>
        /\ outcome = "returned"
        /\ result = [rel_name |-> args.name, rel_type |-> args.type,
                     pos_exs |-> args.cnt, emb_model_results |-> EmptyDict]
        /\ ncalls = 0
        /\ trace = <<>>

C1_Witness ==
    /\ outcome = "returned"
    /\ args.rel_filter = "reject"
    /\ args.cnt >= MinPosExs
    /\ ProductLen(args) > 0

(* C2: storing any result learn_rel returns under an empty root and        *)
(* loading it back succeeds and gives a result equal to the stored one.    *)
C2_RoundTrip ==
    io \in {"loaded", "load_failed"} => (io = "loaded" /\ loaded = result)

(* the run result learn_rel records for the mi-th model and run r *)
CoversCombination(emr, l, mi, r) ==
    LET rr == emr[l][(mi - 1) * args.n_runs + r + 1]
    IN  rr.model = args.models[mi] /\ rr.emb = l /\ rr.i = r

CoversAll(emr) ==
    /\ DOMAIN emr = Range(args.data_loaders)
    /\ \A l \in DOMAIN emr :
          /\ Len(emr[l]) = Len(args.models) * args.n_runs
          /\ \A mi \in DOMAIN args.models : \A r \in 0..(args.n_runs - 1) :
                CoversCombination(emr, l, mi, r)

(* C3 as stated: a learn_rel call that is not skipped and in which nothing *)
(* fails returns one key per data loader, each with len(models) * n_runs   *)
(* run results, one per (model, run), models outer and runs inner.         *)
C3_CompleteCoverage ==
    LearnRelRan => CoversAll(result.emb_model_results)

(* C3 amended: the same when models is not empty and n_runs >= 1; with no  *)
(* model or no run the returned emb_model_results is empty, whatever the   *)
(* data loaders.                                                           *)
C3_CompleteCoverageOfNonEmptyProduct ==
    LearnRelRan =>
        IF args.models = <<>> \/ args.n_runs = 0
        THEN result.emb_model_results = EmptyDict
        ELSE CoversAll(result.emb_model_results)

C3_Witness ==
    /\ LearnRelRan
    /\ Len(args.models) = 2
    /\ Len(args.data_loaders) = 2
    /\ args.n_runs = 2
    /\ args.models[1] # args.models[2]

(* C4: once a loaded label tensor holds a value other than 0 or 1,         *)
(* learn_rel has raised the validation failure, with no model built and no *)
(* run result recorded for the combination.                                *)
C4_NonBinaryLabelsRaise ==
    ((\E y \in Y : y \notin {2 * 0, 2 * 1}) /\ pc \notin {"load", "validate"})
        => /\ outcome = "raised"
           /\ failed.fn = "assert"
           /\ \A j \in DOMAIN trace : trace[j].fn \notin {"_build_model", "record"}

(* supporting C4: a label above 1 or below 0 does raise the validation    *)
(* failure before any model is built                                       *)
LabelsOutsideUnitRangeRaise ==
    ((\E y \in Y : y < 2 * 0 \/ y > 2 * 1) /\ pc \notin {"load", "validate"})
        => /\ outcome = "raised"
           /\ failed.fn = "assert"
           /\ \A j \in DOMAIN trace : trace[j].fn \notin {"_build_model", "record"}

(* C5: for every trainset size n > 0 the heuristic returns at least 1, and *)
(* its value at 10 * n is at most its value at n.                          *)
C5_PositiveAndNonIncreasing ==
    /\ heur.at \in {"one", "both"} => heur.e >= 1
    /\ heur.at = "both" => (heur.e10 >= 1 /\ heur.e10 <= heur.e)

(* supporting C5: the value at 10 * n is at most the value at n, and the   *)
(* value is at least 1 up to the size 632455532                            *)
EpochsNonIncreasing ==
    /\ heur.at = "both" => heur.e10 <= heur.e
    /\ (heur.at \in {"one", "both"} /\ heur.n <= 632455532) => heur.e >= 1

(* C6: when a collaborator call (or the label validation) fails, learn_rel *)
(* ends with the failure raised, returns nothing, and makes no further     *)
(* collaborator call: the failing call is the last one.                    *)
C6_FailureAbortsEverything ==
    /\ failed # NoFailure =>
          /\ outcome = "raised"
          /\ pc = "done"
          /\ result = None
          /\ io = "none"
          /\ ncalls = failed.ncalls
          /\ trace[Len(trace)].fn = failed.fn
    /\ outcome = "raised" => failed # NoFailure

C6_Witness ==
    /\ failed.fn = "train"
    /\ outcome = "raised"
    /\ idx >= 2
    /\ emb_model_results # EmptyDict

(* C7: every run result under embedding-source key k has emb = k: while    *)
(* learn_rel accumulates, in the result it returns, and in what            *)
(* load_learn_result returns for the stored result.                        *)
C7_KeyIsEmb ==
    /\ KeyIsEmb(emb_model_results)
    /\ outcome = "returned" => KeyIsEmb(result.emb_model_results)
    /\ io = "loaded" => KeyIsEmb(loaded.emb_model_results)

C7_Witness ==
    /\ io = "loaded"
    /\ Cardinality(DOMAIN loaded.emb_model_results) = 2
    /\ \A k \in DOMAIN loaded.emb_model_results :
          Len(loaded.emb_model_results[k]) >= 2

(* the directory the layout gives a run result with index below 100 *)
LayoutDir(e, rr) ==
    <<"root", result.rel_type, result.rel_name, e, rr.model,
      <<"run_", rr.i \div 10, rr.i % 10>>>>

Triples(emr) ==
    UNION {{<<e, emr[e][j].model, emr[e][j].i>> : j \in DOMAIN emr[e]} :
              e \in DOMAIN emr}

WrittenAsLaidOut ==
    LET emr == result.emb_model_results
    IN  /\ \A e \in DOMAIN emr : \A j \in DOMAIN emr[e] :
              emr[e][j].i \in 0..99 =>
                  /\ LayoutDir(e, emr[e][j]) \in DOMAIN fs
                  /\ DOMAIN fs[LayoutDir(e, emr[e][j])] =
                        {"meta.json", "train.tsv", "test.tsv",
                         "pretrain-test.json", "randomvec-test.json"}
        /\ Cardinality(DOMAIN fs) = Cardinality(Triples(emr))

StepFns ==
    <<"load", "assert", "epochs_from_trainset_size_fn", "split_data",
      "_build_model", "ModelTrainer", "test", "train", "test_df",
      "test_random", "record">>

(* C9: the steps of every combination happen in this order, each once:     *)
(* load, validate labels, epochs from the size of the full dataset, split  *)
(* with seed 41, build the model, (create the trainer,) pretrain test,     *)
(* train for the computed epochs, detailed test, random-vector test,       *)
(* record; a combination is complete before the next one starts.           *)
C9_StepOrder ==
    /\ Len(trace) <= Len(StepFns)
    /\ \A j \in DOMAIN trace :
          /\ j = 1 => trace[j].fn \in LoadFns
          /\ j > 1 => trace[j].fn = StepFns[j]
          /\ trace[j].fn = "epochs_from_trainset_size_fn" =>
                trace[j].trainset_size = dataset.rows
          /\ trace[j].fn = "split_data" => trace[j].seed = SplitSeed
          /\ trace[j].fn = "train" =>
                trace[j].epochs_list = _epochs_from_trainset_size(dataset.rows)
    /\ (pc = "iter" /\ idx > 0) => Len(trace) = Len(StepFns)
    /\ (pc = "load") => trace = <<>>

C9_Witness ==
    /\ pc = "iter"
    /\ idx = 2
    /\ Fns(trace) = [StepFns EXCEPT ![1] = "load_pair_data"]

(* C10: every combination calls exactly one loading method, on its own     *)
(* loader: generate_random_pair_data(target_size = 2 * cnt) for rnd2rnd,   *)
(* whatever single_rel_types holds; else load_single_data on the           *)
(* relation's file for a type in single_rel_types; else load_pair_data.    *)
C10_LoadingStrategy ==
    trace # <<>> =>
        /\ trace[1].on = cur.loader_name
        /\ IF args.type = "rnd2rnd"
           THEN /\ trace[1].fn = "generate_random_pair_data"
                /\ trace[1].target_size = 2 * args.cnt
           ELSE IF args.type \in args.single_rel_types
           THEN /\ trace[1].fn = "load_single_data"
                /\ trace[1].fpath = <<args.relpath, args.file>>
           ELSE /\ trace[1].fn = "load_pair_data"
                /\ trace[1].fpath = <<args.relpath, args.file>>
        /\ \A j \in 2..Len(trace) : trace[j].fn \notin LoadFns

C10_Witness ==
    /\ trace # <<>>
    /\ args.type = "rnd2rnd"
    /\ "rnd2rnd" \in args.single_rel_types
    /\ trace[1].fn = "generate_random_pair_data"
    /\ idx >= 1

=============================================================================
